---- MODULE Spec2Model ----
(***************************************************************************)
(* Rules admin console: the dashboard page (filter / sort / status toggle  *)
(* over the rendered rule rows) and the single-rule view page (status      *)
(* toggle), as implemented by the inline scripts of the two templates.     *)
(*                                                                         *)
(* Strings are sequences of one-character strings so that lower-casing,    *)
(* trimming and substring search are computed, not assumed.                *)
(***************************************************************************)
EXTENDS Integers, Sequences, FiniteSets, TLC

VARIABLES
    page,        \* which template is rendered: "dashboard" or "view"
    row,         \* dashboard: row id -> the <tr class="rule-row"> element
    tbody,       \* dashboard: row ids in DOM order inside #rulesTableBody
    allRules,    \* dashboard: the script's module-level array
    inputs,      \* dashboard: sidebar controls (search box, checkboxes, select)
    rulesCount,  \* dashboard: text of #rulesCount
    view,        \* rule view: switch, status text and badge of the page
    inflight,    \* toggle requests sent and not yet answered, in issue order
    alert,       \* the alert() dialog the latest handler opened, else "none"
    last,        \* history: the handler that ran last and what it was given
    overlap,     \* history: per switch, have toggles of it ever overlapped
    deleteModal, \* dashboard: #deleteModal, its form and what the form posted
    sidebar,     \* rules sidebar of the base layout and its script
    emailPanel,  \* email detail panel, its timers and its requests
    notifications \* notification container, its timers and the clock

\* The parts of the console a rule page's own handlers never touch.
otherVars == <<sidebar, emailPanel, notifications>>

vars == <<page, row, tbody, allRules, inputs, rulesCount, view, inflight,
          alert, last, overlap, deleteModal, sidebar, emailPanel,
          notifications>>

----------------------------------------------------------------------------
(* Bounds *)

MaxInflight == 2

\* Rule list requests of the sidebar pending at the same time.
MaxLoads == 2

\* Timers and email requests of the email panel pending at the same time.
MaxPanelWork == 3

\* Notifications shown during one page visit.
MaxNotifications == 2

----------------------------------------------------------------------------
(* Strings *)

\* String.prototype.toLowerCase, on the characters the model uses.
LowerChar(c) ==
    CASE c = "A" -> "a"
      [] c = "B" -> "b"
      [] c = "L" -> "l"
      [] c = "P" -> "p"
      [] c = "H" -> "h"
      [] c = "O" -> "o"
      [] c = "S" -> "s"
      [] c = "M" -> "m"
      [] OTHER -> c

toLowerCase(s) == [i \in 1..Len(s) |-> LowerChar(s[i])]

RECURSIVE trimStart(_)
trimStart(s) ==
    IF s /= <<>> /\ Head(s) = " " THEN trimStart(Tail(s)) ELSE s

RECURSIVE trimEnd(_)
trimEnd(s) ==
    IF s /= <<>> /\ s[Len(s)] = " "
    THEN trimEnd(SubSeq(s, 1, Len(s) - 1))
    ELSE s

\* String.prototype.trim
trim(s) == trimEnd(trimStart(s))

\* String.prototype.includes
includes(s, t) ==
    \E i \in 0..(Len(s) - Len(t)) : SubSeq(s, i + 1, i + Len(t)) = t

\* Position of a character in the collation order used by localeCompare.
Alphabet == <<" ", "a", "b", "c", "d", "e", "g", "h", "i", "k", "l",
              "m", "n", "o", "p", "r", "s", "t", "v">>

Code(c) == CHOOSE i \in 1..Len(Alphabet) : Alphabet[i] = c

\* String.prototype.localeCompare: negative, zero or positive.
RECURSIVE localeCompare(_, _)
localeCompare(a, b) ==
    IF a = <<>> /\ b = <<>> THEN 0
    ELSE IF a = <<>> THEN -1
    ELSE IF b = <<>> THEN 1
    ELSE IF Code(Head(a)) < Code(Head(b)) THEN -1
    ELSE IF Code(Head(a)) > Code(Head(b)) THEN 1
    ELSE localeCompare(Tail(a), Tail(b))

----------------------------------------------------------------------------
(* Backend data handed to the templates *)

Absent == "absent"     \* the record has no such field

\* A timestamp field: null, or a date with its time value.
NoDate == [isNull |-> TRUE, time |-> 0]
At(t) == [isNull |-> FALSE, time |-> t]

\* action_types keys rendered as the .action-filter checkboxes
ActionTypes == { <<"s", "m", "s">>, <<"a", "r", "c", "h", "i", "v", "e">> }

Alpha ==
    [rule_id |-> "r1",
     name |-> <<"A", "l", "p", "h", "a">>,
     description |-> <<"P", "a", "g", "e", " ", "m", "e">>,
     query |-> <<"b", "a", "n", "k">>,
     action |-> <<"s", "m", "s">>,
     is_active |-> "True",
     created_date |-> At(1),
     modified_date |-> At(3)]

Beta ==
    [rule_id |-> "r2",
     name |-> <<"B", "e", "t", "a">>,
     description |-> <<"O", "l", "d", " ", "m", "a", "i", "l">>,
     query |-> <<"s", "h", "o", "p">>,
     action |-> <<"a", "r", "c", "h", "i", "v", "e">>,
     is_active |-> "False",
     created_date |-> At(2),
     modified_date |-> At(2)]

\* no is_active field, an action outside action_types, never modified
Gamma ==
    [rule_id |-> "r3",
     name |-> <<"a", "l", "p", "h", "a">>,
     description |-> <<>>,
     query |-> <<"B", "a", "n", "k">>,
     action |-> <<"p", "i", "n", "g">>,
     is_active |-> Absent,
     created_date |-> At(2),
     modified_date |-> NoDate]

\* Rule lists the index route can hand to the dashboard template.
RuleLists == { <<Alpha, Beta>>, <<Beta, Gamma>>, <<Gamma>>, <<Alpha, Beta, Gamma>> }

\* The lists among them on which the status switches are exercised.
ToggleRuleLists == { <<Alpha, Beta>>, <<Gamma>> }

\* Rules the view route can hand to the rule view template.
ViewRules == { Alpha, Beta, Gamma }

\* Texts a user types into #searchInput.
SearchTerms == { <<>>, <<" ", "A", "L", "P", "H", "A", " ">>,
                 <<"l", "d">>, <<"b", "a", "n">> }

SortKeys == { "modified", "created", "name", "action" }

\* Variant: rule.get('is_active', False)
get_is_activeDefaultFalse(rule) ==
    IF rule.is_active = Absent THEN FALSE ELSE rule.is_active = "True"

\* rule.get('is_active', True)
get_is_active(rule) ==
    IF rule.is_active = Absent THEN TRUE ELSE rule.is_active = "True"

\* str() of a Python bool, as {{ ... }} renders it
PyStr(b) == IF b THEN "True" ELSE "False"

\* String() of a JavaScript boolean, as a dataset assignment stores it
JsStr(b) == IF b THEN "true" ELSE "false"

----------------------------------------------------------------------------
(* Dashboard: what the template renders *)

\* One <tr class="rule-row"> with its data attributes, its name link, its
\* query preview and its status switch.
RuleRow(rule) ==
    [rule_id     |-> rule.rule_id,
     name        |-> toLowerCase(rule.name),
     action      |-> rule.action,
     created     |-> rule.created_date,
     modified    |-> rule.modified_date,
     description |-> toLowerCase(rule.description),
     active      |-> PyStr(get_is_active(rule)),
     query       |-> rule.query,
     classes     |-> IF get_is_active(rule)
                     THEN {"rule-row"}
                     ELSE {"rule-row", "table-secondary"},
     linkClasses |-> IF get_is_active(rule)
                     THEN {"text-decoration-none", "text-dark"}
                     ELSE {"text-decoration-none", "text-muted"},
     pauseIcon   |-> ~get_is_active(rule),
     checked     |-> get_is_active(rule),
     display     |-> ""]

\* x || dflt on a data attribute that holds text
OrDefault(x, dflt) == IF x = "" THEN dflt ELSE x

\* The object the script builds for one row. The template always renders
\* data-name, data-action, data-description, data-created and data-modified,
\* and '' is their own default, so they are read as they are.
RuleEntry(id, r) ==
    [element     |-> id,
     name        |-> r.name,
     action      |-> r.action,
     description |-> r.description,
     created     |-> r.created,
     modified    |-> r.modified,
     active      |-> OrDefault(r.active, "True"),
     query       |-> toLowerCase(r.query)]

\* Array.from(rows).map(...) over the rows in document order
EntriesOf(order, rows) == [k \in 1..Len(order) |-> RuleEntry(order[k], rows[order[k]])]

InitialInputs ==
    [searchInput  |-> <<>>,
     filterAll    |-> TRUE,
     actionFilter |-> ActionTypes,
     statusFilter |-> {"active", "inactive"},
     sortSelect   |-> "modified"]

----------------------------------------------------------------------------
(* Dashboard: filterRules *)

matchesSearch(rule, searchTerm) ==
    \/ searchTerm = <<>>
    \/ (rule.name /= <<>> /\ includes(rule.name, searchTerm))
    \/ (rule.description /= <<>> /\ includes(rule.description, searchTerm))
    \/ (rule.query /= <<>> /\ includes(rule.query, searchTerm))

\* Variant: an empty selection is read as no restriction.
matchesActionEmptyMeansAll(rule, in) ==
    in.filterAll \/ in.actionFilter = {} \/ rule.action \in in.actionFilter

\* Variant: the All Types box is not consulted.
matchesActionSelectedOnly(rule, in) ==
    rule.action \in in.actionFilter

matchesAction(rule, in) ==
    in.filterAll \/ rule.action \in in.actionFilter

ruleIsActive(rule) == rule.active = "True"

matchesStatus(rule, in) ==
    \/ ("active" \in in.statusFilter /\ ruleIsActive(rule))
    \/ ("inactive" \in in.statusFilter /\ ~ruleIsActive(rule))

\* The rule passes all three tests of the forEach body.
ruleVisible(rule, in) ==
    /\ matchesSearch(rule, trim(toLowerCase(in.searchInput)))
    /\ matchesAction(rule, in)
    /\ matchesStatus(rule, in)

\* Variant: the loop over the rules ends at the first rule that does not
\* match, and the rules after it are hidden.
filterRulesUntilFirstMiss(rules, order, rows, in, count) ==
    LET all == IF rules = <<>> THEN EntriesOf(order, rows) ELSE rules
        shown == { k \in 1..Len(all) : \A j \in 1..k : ruleVisible(all[j], in) }
        elems(S) == { all[k].element : k \in S }
    IN  [allRules   |-> all,
         row        |-> [id \in DOMAIN rows |->
                           IF id \in elems(shown)
                           THEN [rows[id] EXCEPT !.display = ""]
                           ELSE IF id \in elems(DOMAIN all)
                           THEN [rows[id] EXCEPT !.display = "none"]
                           ELSE rows[id]],
         rulesCount |-> IF order = <<>> THEN count ELSE Cardinality(shown)]

\* filterRules(): the array it leaves in allRules, the rows with their
\* display styles set, and the text written to #rulesCount (left alone when
\* the element is not rendered).
filterRules(rules, order, rows, in, count) ==
    LET all == IF rules = <<>> THEN EntriesOf(order, rows) ELSE rules
        shown == { k \in 1..Len(all) : ruleVisible(all[k], in) }
        elems(S) == { all[k].element : k \in S }
    IN  [allRules   |-> all,
         row        |-> [id \in DOMAIN rows |->
                           IF id \in elems(shown)
                           THEN [rows[id] EXCEPT !.display = ""]
                           ELSE IF id \in elems(DOMAIN all)
                           THEN [rows[id] EXCEPT !.display = "none"]
                           ELSE rows[id]],
         rulesCount |-> IF order = <<>> THEN count ELSE Cardinality(shown)]

----------------------------------------------------------------------------
(* Rule view: what the template renders *)

ActiveText == "Rule is active and processing emails"
InactiveText == "Rule is inactive and not processing emails"

ActiveBadge ==
    [className |-> "badge bg-success ms-2",
     innerHTML |-> "<i class=\"bi bi-play-circle me-1\"></i>Active"]

InactiveBadge ==
    [className |-> "badge bg-secondary ms-2",
     innerHTML |-> "<i class=\"bi bi-pause-circle me-1\"></i>Inactive"]

RuleView(rule) ==
    [rule_id    |-> rule.rule_id,
     checked    |-> get_is_active(rule),
     statusText |-> IF get_is_active(rule) THEN ActiveText ELSE InactiveText,
     badge      |-> IF get_is_active(rule) THEN ActiveBadge ELSE InactiveBadge]

\* The page that is not rendered has no elements.
NoView == [rule_id |-> "", checked |-> FALSE, statusText |-> "", badge |-> [className |-> "", innerHTML |-> ""]]

\* The status switches of the rendered page: row ids on the dashboard, 0 on
\* the rule view.
Controls == IF page = "view" THEN {0} ELSE DOMAIN row

----------------------------------------------------------------------------
(* Initial states: a page as the server rendered it, after DOMContentLoaded *)

InitDashboard(lists) ==
    \E rules \in lists :
        LET rows == [i \in 1..Len(rules) |-> RuleRow(rules[i])]
            order == [i \in 1..Len(rules) |-> i]
            f == filterRules(EntriesOf(order, rows), order, rows,
                             InitialInputs, Len(rules))
        IN  /\ page = "dashboard"
            /\ tbody = order
            /\ row = f.row
            /\ allRules = f.allRules
            /\ rulesCount = f.rulesCount
            /\ inputs = InitialInputs
            /\ view = NoView
            /\ overlap = [i \in 1..Len(rules) |-> "clean"]

InitView ==
    \E rule \in ViewRules :
        /\ page = "view"
        /\ view = RuleView(rule)
        /\ tbody = <<>>
        /\ row = <<>>
        /\ allRules = <<>>
        /\ rulesCount = 0
        /\ inputs = InitialInputs
        /\ overlap = [i \in {0} |-> "clean"]

\* A request record with nothing in it, for handlers that answer none.
NoRequest == [ruleId |-> "", checkbox |-> -1, originalChecked |-> FALSE, pre |-> FALSE]

\* The history entry of a handler run.
Ran(op, request, is_active) ==
    [op |-> op, request |-> request, is_active |-> is_active]

\* #deleteModal as rendered: hidden, no rule name, a form without action;
\* nothing posted.
InitialDeleteModal ==
    [shown |-> FALSE, deleteRuleName |-> <<>>, action |-> "", posted |-> "",
     called |-> [ruleId |-> "", ruleName |-> <<>>]]

\* #sidebarContent: what it shows (nothing yet, rule items, one of the two
\* empty-list messages, or the load error), the rule ids of the items in
\* order, and the id of the item marked active.
Content(kind, items, active) == [kind |-> kind, items |-> items, active |-> active]

\* The sidebar as rendered, with the script's two variables: closed, an
\* empty search box, no rules, nothing requested.
InitialSidebar ==
    [sidebarOpen |-> FALSE,
     open        |-> FALSE,
     searchRules |-> <<>>,
     rulesData   |-> <<>>,
     content     |-> Content("blank", <<>>, ""),
     loads       |-> 0]

\* #emailPanelBody: the spinner, the details of an email, or the load error.
PanelBody(kind, emailId) == [kind |-> kind, emailId |-> emailId]

\* The email panel as rendered: closed, showing the spinner; no timer set,
\* nothing requested, no email opened yet.
InitialEmailPanel ==
    [open     |-> FALSE,
     body     |-> PanelBody("loading", ""),
     timers   |-> <<>>,
     requests |-> <<>>,
     latest   |-> ""]

\* #notifications as rendered: empty, no timer set. made counts the
\* notifications created, lastId is the last value Date.now() returned and
\* fresh says that the clock has moved on since.
InitialNotifications ==
    [container |-> <<>>, timers |-> <<>>, made |-> 0, lastId |-> 0, fresh |-> TRUE]

InitWith(lists) ==
    /\ InitDashboard(lists) \/ InitView
    /\ inflight = <<>>
    /\ alert = "none"
    /\ last = Ran("load", NoRequest, FALSE)
    /\ deleteModal = InitialDeleteModal
    /\ sidebar = InitialSidebar
    /\ emailPanel = InitialEmailPanel
    /\ notifications = InitialNotifications

Init == InitWith(ToggleRuleLists)

InitFilter == InitWith(RuleLists)

----------------------------------------------------------------------------
(* Dashboard: sidebar controls, each with its change handlers *)

ApplyFilter(in) ==
    LET f == filterRules(allRules, tbody, row, in, rulesCount)
    IN  /\ inputs' = in
        /\ allRules' = f.allRules
        /\ row' = f.row
        /\ rulesCount' = f.rulesCount
        /\ alert' = "none"
        /\ last' = Ran("filterRules", NoRequest, FALSE)
        /\ UNCHANGED <<deleteModal, otherVars>>
        /\ UNCHANGED <<page, tbody, view, inflight, overlap>>

\* oninput of #searchInput
SearchInput(text) ==
    /\ page = "dashboard"
    /\ text /= inputs.searchInput
    /\ ApplyFilter([inputs EXCEPT !.searchInput = text])

\* change of #filterAll: the inline filterRules(), then the listener that
\* copies the box onto every .action-filter and filters again
FilterAllChange ==
    /\ page = "dashboard"
    /\ LET b == ~inputs.filterAll
       IN  ApplyFilter([inputs EXCEPT !.filterAll = b,
                                      !.actionFilter = IF b THEN ActionTypes ELSE {}])

\* Variant: the listener that recomputes #filterAll is not attached.
ActionFilterChangeKeepsAllTypes(a) ==
    /\ page = "dashboard"
    /\ LET sel == IF a \in inputs.actionFilter
                  THEN inputs.actionFilter \ {a}
                  ELSE inputs.actionFilter \cup {a}
       IN  ApplyFilter([inputs EXCEPT !.actionFilter = sel])

\* change of one .action-filter: the inline filterRules(), then the listener
\* that recomputes #filterAll and filters again
ActionFilterChange(a) ==
    /\ page = "dashboard"
    /\ LET sel == IF a \in inputs.actionFilter
                  THEN inputs.actionFilter \ {a}
                  ELSE inputs.actionFilter \cup {a}
       IN  ApplyFilter([inputs EXCEPT !.actionFilter = sel,
                                      !.filterAll = (sel = ActionTypes)])

\* change of one .status-filter
StatusFilterChange(s) ==
    /\ page = "dashboard"
    /\ ApplyFilter([inputs EXCEPT !.statusFilter =
                       IF s \in @ THEN @ \ {s} ELSE @ \cup {s}])

----------------------------------------------------------------------------
(* Dashboard: sortRules *)

\* A JavaScript number: NaN, or an integer.
NaN == [isNaN |-> TRUE, value |-> 0]
Num(n) == [isNaN |-> FALSE, value |-> n]

\* new Date(text).valueOf(): the rendered text of a null date does not parse
DateValue(d) == IF d.isNull THEN NaN ELSE Num(d.time)

\* bVal - aVal on two Date objects
DateDiff(b, a) ==
    IF DateValue(a).isNaN \/ DateValue(b).isNaN
    THEN NaN
    ELSE Num(DateValue(b).value - DateValue(a).value)

\* Variant: the text keys are compared the other way round.
compareRowsTextDescending(a, b, sortBy) ==
    CASE sortBy = "name"    -> Num(localeCompare(b.name, a.name))
      [] sortBy = "action"  -> Num(localeCompare(b.action, a.action))
      [] sortBy = "created" -> DateDiff(b.created, a.created)
      [] OTHER              -> DateDiff(b.modified, a.modified)

\* The comparator passed to rows.sort
compareRows(a, b, sortBy) ==
    CASE sortBy = "name"    -> Num(localeCompare(a.name, b.name))
      [] sortBy = "action"  -> Num(localeCompare(a.action, b.action))
      [] sortBy = "created" -> DateDiff(b.created, a.created)
      [] OTHER              -> DateDiff(b.modified, a.modified)

\* Array.prototype.sort reads a NaN result of the comparator as +0
SortCompare(a, b, sortBy) ==
    LET v == compareRows(a, b, sortBy) IN IF v.isNaN THEN 0 ELSE v.value

Orderings(order) ==
    { p \in [1..Len(order) -> { order[i] : i \in 1..Len(order) }] :
        \A i, j \in 1..Len(order) : i /= j => p[i] /= p[j] }

IndexOf(order, id) == CHOOSE i \in 1..Len(order) : order[i] = id

\* The comparator is a consistent comparator for these rows: "compares
\* equal" and "compares before" are transitive.
ConsistentComparator(order, rows, sortBy) ==
    LET ids == { order[i] : i \in 1..Len(order) }
        c(x, y) == SortCompare(rows[x], rows[y], sortBy)
    IN  \A x, y, z \in ids :
            /\ (c(x, y) = 0 /\ c(y, z) = 0) => c(x, z) = 0
            /\ (c(x, y) < 0 /\ c(y, z) < 0) => c(x, z) < 0
            /\ (c(x, y) > 0 /\ c(y, z) > 0) => c(x, z) > 0
            /\ (c(x, y) = 0) = (c(y, x) = 0)
            /\ (c(x, y) < 0) = (c(y, x) > 0)

\* The stable sort of the rows under a consistent comparator.
StableSorted(order, rows, sortBy) ==
    CHOOSE p \in Orderings(order) :
        \A i, j \in 1..Len(p) : i < j =>
            LET v == SortCompare(rows[p[i]], rows[p[j]], sortBy)
            IN  v < 0 \/ (v = 0 /\ IndexOf(order, p[i]) < IndexOf(order, p[j]))

\* The orders rows.sort can produce: the stable sort, or, for a comparator
\* that is not consistent, an implementation-defined permutation.
SortOutcomes(order, rows, sortBy) ==
    IF ConsistentComparator(order, rows, sortBy)
    THEN { StableSorted(order, rows, sortBy) }
    ELSE Orderings(order)

\* change of #sortSelect: sortRules(this.value) re-appends the rows in sorted
\* order and rebuilds allRules from them. Without a table body the handler
\* throws before it changes anything.
sortRules(sortBy) ==
    /\ page = "dashboard"
    /\ sortBy /= inputs.sortSelect
    /\ inputs' = [inputs EXCEPT !.sortSelect = sortBy]
    /\ \E sorted \in SortOutcomes(tbody, row, sortBy) :
          /\ tbody' = sorted
          /\ allRules' = EntriesOf(sorted, row)
    /\ alert' = "none"
    /\ last' = Ran("sortRules", NoRequest, FALSE)
    /\ UNCHANGED <<deleteModal, otherVars>>
    /\ UNCHANGED <<page, row, rulesCount, view, inflight, overlap>>

----------------------------------------------------------------------------
(* Status toggle, both pages *)

RemoveAt(s, k) == [i \in 1..(Len(s) - 1) |-> IF i < k THEN s[i] ELSE s[i + 1]]

InFlightFor(c) == { k \in 1..Len(inflight) : inflight[k].checkbox = c }

Checked(c) == IF c = 0 THEN view.checked ELSE row[c].checked

RuleIdOf(c) == IF c = 0 THEN view.rule_id ELSE row[c].rule_id

\* Variant: the switch is looked up by its class, so every switch of the page
\* is written.
SetCheckedEverySwitch(c, b) ==
    /\ view' = [view EXCEPT !.checked = IF c = 0 THEN b ELSE @]
    /\ row' = [id \in DOMAIN row |-> [row[id] EXCEPT !.checked = IF c = 0 THEN @ ELSE b]]

\* checkbox.checked = b
SetChecked(c, b) ==
    IF c = 0
    THEN /\ view' = [view EXCEPT !.checked = b]
         /\ UNCHANGED row
    ELSE /\ row' = [row EXCEPT ![c].checked = b]
         /\ UNCHANGED view

\* Variant: the change handler is bound twice, so one click sends two
\* requests.
toggleRuleStatusSendsTwice(c) ==
    /\ c \in Controls
    /\ Len(inflight) < MaxInflight
    /\ SetChecked(c, ~Checked(c))
    /\ LET request == [ruleId          |-> RuleIdOf(c),
                       checkbox        |-> c,
                       originalChecked |-> ~Checked(c),
                       pre             |-> Checked(c)]
       IN  /\ inflight' = Append(Append(inflight, request), request)
           /\ last' = Ran("toggleRuleStatus", request, FALSE)
    /\ alert' = "none"
    /\ overlap' = [overlap EXCEPT ![c] = "overlapped"]
    /\ UNCHANGED <<deleteModal, otherVars>>
    /\ UNCHANGED <<page, tbody, allRules, inputs, rulesCount>>

\* Variant: a click on a switch whose request is still pending is ignored.
toggleRuleStatusWhenIdle(c) ==
    /\ c \in Controls
    /\ Len(inflight) < MaxInflight
    /\ InFlightFor(c) = {}
    /\ SetChecked(c, ~Checked(c))
    /\ LET request == [ruleId          |-> RuleIdOf(c),
                       checkbox        |-> c,
                       originalChecked |-> ~Checked(c),
                       pre             |-> Checked(c)]
       IN  /\ inflight' = Append(inflight, request)
           /\ last' = Ran("toggleRuleStatus", request, FALSE)
    /\ alert' = "none"
    /\ UNCHANGED <<deleteModal, otherVars>>
    /\ UNCHANGED <<page, tbody, allRules, inputs, rulesCount, overlap>>

\* Variant: a click aborts the requests of its switch that are still pending.
toggleRuleStatusAbortsPending(c) ==
    /\ c \in Controls
    /\ Len(inflight) < MaxInflight
    /\ SetChecked(c, ~Checked(c))
    /\ LET request == [ruleId          |-> RuleIdOf(c),
                       checkbox        |-> c,
                       originalChecked |-> ~Checked(c),
                       pre             |-> Checked(c)]
       IN  /\ inflight' = Append(SelectSeq(inflight, LAMBDA q : q.checkbox /= c), request)
           /\ last' = Ran("toggleRuleStatus", request, FALSE)
    /\ alert' = "none"
    /\ overlap' = [overlap EXCEPT ![c] =
                     IF InFlightFor(c) = {} \/ @ = "reordered"
                     THEN @ ELSE "overlapped"]
    /\ UNCHANGED <<deleteModal, otherVars>>
    /\ UNCHANGED <<page, tbody, allRules, inputs, rulesCount>>

\* The user clicks a status switch: the browser flips it and fires change,
\* and toggleRuleStatus runs up to its await: it reads the flipped value
\* into originalChecked and sends the request. (pre records the value the
\* switch had before the click.)
toggleRuleStatus(c) ==
    /\ c \in Controls
    /\ Len(inflight) < MaxInflight
    /\ SetChecked(c, ~Checked(c))
    /\ LET request == [ruleId          |-> RuleIdOf(c),
                       checkbox        |-> c,
                       originalChecked |-> ~Checked(c),
                       pre             |-> Checked(c)]
       IN  /\ inflight' = Append(inflight, request)
           /\ last' = Ran("toggleRuleStatus", request, FALSE)
    /\ alert' = "none"
    /\ overlap' = [overlap EXCEPT ![c] =
                     IF InFlightFor(c) = {} \/ @ = "reordered"
                     THEN @ ELSE "overlapped"]
    /\ UNCHANGED <<deleteModal, otherVars>>
    /\ UNCHANGED <<page, tbody, allRules, inputs, rulesCount>>

\* The response of request k leaves the in-flight list; note when it
\* overtakes an earlier request of the same switch.
Answered(k) ==
    /\ inflight' = RemoveAt(inflight, k)
    /\ overlap' = [overlap EXCEPT ![inflight[k].checkbox] =
                     IF \E j \in InFlightFor(inflight[k].checkbox) : j < k
                     THEN "reordered" ELSE @]

\* Variant: the branch tests the switch instead of the response body.
RowConfirmedFromSwitch(r, is_active) ==
    IF r.checked
    THEN [r EXCEPT !.classes = @ \ {"table-secondary"},
                   !.linkClasses = (@ \ {"text-muted"}) \cup {"text-dark"},
                   !.pauseIcon = FALSE,
                   !.active = JsStr(r.checked)]
    ELSE [r EXCEPT !.classes = @ \cup {"table-secondary"},
                   !.linkClasses = (@ \ {"text-dark"}) \cup {"text-muted"},
                   !.pauseIcon = TRUE,
                   !.active = JsStr(r.checked)]

\* The row as the success branch of the dashboard handler leaves it.
RowConfirmed(r, is_active) ==
    IF is_active
    THEN [r EXCEPT !.classes = @ \ {"table-secondary"},
                   !.linkClasses = (@ \ {"text-muted"}) \cup {"text-dark"},
                   !.pauseIcon = FALSE,
                   !.active = JsStr(is_active)]
    ELSE [r EXCEPT !.classes = @ \cup {"table-secondary"},
                   !.linkClasses = (@ \ {"text-dark"}) \cup {"text-muted"},
                   !.pauseIcon = TRUE,
                   !.active = JsStr(is_active)]

\* The rule view as the success branch of its handler leaves it.
ViewConfirmed(v, is_active) ==
    IF is_active
    THEN [v EXCEPT !.statusText = ActiveText, !.badge = ActiveBadge]
    ELSE [v EXCEPT !.statusText = InactiveText, !.badge = InactiveBadge]

\* Variant: the row is looked up in the document, which finds the first row,
\* instead of from the switch that was clicked.
ToggleConfirmedFirstRow(k, is_active) ==
    /\ k \in 1..Len(inflight)
    /\ Answered(k)
    /\ LET c == inflight[k].checkbox
       IN  IF c = 0
           THEN /\ view' = ViewConfirmed(view, is_active)
                /\ UNCHANGED row
           ELSE /\ row' = [row EXCEPT ![tbody[1]] = RowConfirmed(@, is_active)]
                /\ UNCHANGED view
    /\ alert' = "none"
    /\ last' = Ran("confirmed", inflight[k], is_active)
    /\ UNCHANGED <<deleteModal, otherVars>>
    /\ UNCHANGED <<page, tbody, allRules, inputs, rulesCount>>

\* response.ok with body {is_active: ...}
ToggleConfirmed(k, is_active) ==
    /\ k \in 1..Len(inflight)
    /\ Answered(k)
    /\ LET c == inflight[k].checkbox
       IN  IF c = 0
           THEN /\ view' = ViewConfirmed(view, is_active)
                /\ UNCHANGED row
           ELSE /\ row' = [row EXCEPT ![c] = RowConfirmed(@, is_active)]
                /\ UNCHANGED view
    /\ alert' = "none"
    /\ last' = Ran("confirmed", inflight[k], is_active)
    /\ UNCHANGED <<deleteModal, otherVars>>
    /\ UNCHANGED <<page, tbody, allRules, inputs, rulesCount>>

\* Variant: the negation is missing.
RevertedKeepsFlip(originalChecked) == originalChecked

\* The switch as the two failure branches leave it.
Reverted(originalChecked) == ~originalChecked

\* a response that is not ok
ToggleRejected(k) ==
    /\ k \in 1..Len(inflight)
    /\ Answered(k)
    /\ SetChecked(inflight[k].checkbox, Reverted(inflight[k].originalChecked))
    /\ alert' = "Failed to toggle rule status"
    /\ last' = Ran("rejected", inflight[k], FALSE)
    /\ UNCHANGED <<deleteModal, otherVars>>
    /\ UNCHANGED <<page, tbody, allRules, inputs, rulesCount>>

\* fetch rejects: the request never got a response
ToggleNetworkError(k) ==
    /\ k \in 1..Len(inflight)
    /\ Answered(k)
    /\ SetChecked(inflight[k].checkbox, Reverted(inflight[k].originalChecked))
    /\ alert' = "Error toggling rule status: Failed to fetch"
    /\ last' = Ran("error", inflight[k], FALSE)
    /\ UNCHANGED <<deleteModal, otherVars>>
    /\ UNCHANGED <<page, tbody, allRules, inputs, rulesCount>>

----------------------------------------------------------------------------

\* Both pages with their status switches: toggles are made at any time,
\* also while others are in flight, and the responses arrive in any order;
\* on the dashboard the status filter is changed in between.
Next ==
    \/ \E c \in Controls : toggleRuleStatus(c)
    \/ \E k \in 1..MaxInflight, is_active \in BOOLEAN : ToggleConfirmed(k, is_active)
    \/ \E k \in 1..MaxInflight : ToggleRejected(k)
    \/ \E k \in 1..MaxInflight : ToggleNetworkError(k)
    \/ \E s \in {"active", "inactive"} : StatusFilterChange(s)

Spec == Init /\ [][Next]_vars

\* The dashboard's sidebar controls alone: search, filters and sort.
NextFilter ==
    \/ \E text \in SearchTerms : SearchInput(text)
    \/ FilterAllChange
    \/ \E a \in ActionTypes : ActionFilterChange(a)
    \/ \E s \in {"active", "inactive"} : StatusFilterChange(s)
    \/ \E sortBy \in SortKeys : sortRules(sortBy)

SpecFilter == InitFilter /\ [][NextFilter]_vars

----------------------------------------------------------------------------
(* What a user sees of one rule *)

\* The row shows the rule as active (b) or as inactive (~b): muted row,
\* muted name link and pause icon go together.
RowShows(r, b) ==
    /\ ("table-secondary" \in r.classes) = ~b
    /\ ("text-dark" \in r.linkClasses) = b
    /\ ("text-muted" \in r.linkClasses) = ~b
    /\ r.pauseIcon = ~b

\* The rule view shows the rule as active (b) or as inactive (~b).
ViewShows(v, b) ==
    /\ v.statusText = (IF b THEN ActiveText ELSE InactiveText)
    /\ v.badge = (IF b THEN ActiveBadge ELSE InactiveBadge)

\* The display derived from the rule's state, on either page.
DisplayShows(c, b) ==
    IF c = 0 THEN ViewShows(view, b) ELSE RowShows(row[c], b)

\* The active flag stored with the row reads b (the rule view stores none).
FlagShows(c, b) ==
    IF c = 0 THEN TRUE
    ELSE row[c].active = (IF b THEN "True" ELSE "False") \/ row[c].active = JsStr(b)

\* A request for switch c is in flight.
Toggling(c) == InFlightFor(c) /= {}

Failed(op) == op \in {"rejected", "error"}

----------------------------------------------------------------------------
(* C1 *)

\* C1: when a toggle fails, by a response that is not ok or by a network
\* error, the switch is back at the value it had before the user toggled it
\* and an error message has been shown.
C1_FailureRevertsSwitch ==
    Failed(last.op) =>
        /\ Checked(last.request.checkbox) = last.request.pre
        /\ alert /= "none"

C1_Witness ==
    /\ last.op = "error"
    /\ page = "dashboard"
    /\ Checked(last.request.checkbox) = last.request.pre
    /\ alert = "Error toggling rule status: Failed to fetch"

----------------------------------------------------------------------------
(* C2 *)

\* C2: when a toggle succeeds with is_active = v, the switch, the derived
\* display and the stored active flag all show v, also when v is not the
\* value the switch was flipped to.
C2_ConfirmedShowsServerValue ==
    last.op = "confirmed" =>
        /\ Checked(last.request.checkbox) = last.is_active
        /\ DisplayShows(last.request.checkbox, last.is_active)
        /\ FlagShows(last.request.checkbox, last.is_active)

----------------------------------------------------------------------------
(* C3 *)

\* C3: with at most one toggle in flight per rule, whenever no request is
\* in flight for a rule its switch, its styling and its stored flag agree.
C3_IdleControlAgrees ==
    \A c \in Controls :
        (overlap[c] = "clean" /\ ~Toggling(c)) =>
            \E b \in BOOLEAN :
                /\ Checked(c) = b
                /\ DisplayShows(c, b)
                /\ FlagShows(c, b)

----------------------------------------------------------------------------
(* C4, C5: the filter predicate as the specification words it *)

\* The rule's current state, as its row records it.
CurrentlyActive(id) == row[id].active \in {"True", "true"}

TermOf(text) == trim(toLowerCase(text))

SearchHolds(id) ==
    \/ TermOf(inputs.searchInput) = <<>>
    \/ includes(toLowerCase(row[id].name), TermOf(inputs.searchInput))
    \/ includes(toLowerCase(row[id].description), TermOf(inputs.searchInput))
    \/ includes(toLowerCase(row[id].query), TermOf(inputs.searchInput))

ActionHolds(id) ==
    inputs.filterAll \/ row[id].action \in inputs.actionFilter

StatusHolds(id) ==
    (IF CurrentlyActive(id) THEN "active" ELSE "inactive") \in inputs.statusFilter

Passing == { id \in DOMAIN row : SearchHolds(id) /\ ActionHolds(id) /\ StatusHolds(id) }

Displayed == { id \in DOMAIN row : row[id].display = "" }

\* C4: the counter equals the number of rows displayed, and that equals the
\* number of rules passing the filter for the current inputs and the rules'
\* current active state.
C4_CountMatchesFilter ==
    (page = "dashboard") =>
        /\ rulesCount = Cardinality(Displayed)
        /\ Cardinality(Displayed) = Cardinality(Passing)

\* C5: after filter runs, exactly the rules passing the search, action and
\* status tests are visible, and the count is their number.
C5_FilterShowsPassingRules ==
    last.op = "filterRules" =>
        /\ Displayed = Passing
        /\ rulesCount = Cardinality(Passing)

----------------------------------------------------------------------------
(* C6 *)

ToggleOps == {"toggleRuleStatus", "confirmed", "rejected", "error"}

\* What outlasts a toggle in a row: its data attributes, its styling and
\* its visibility, but not its switch.
Lasting(r) == [r EXCEPT !.checked = FALSE]

\* C6: a failed toggle, from the click to the handling of the failure,
\* changes no rule's stored flag or styling, nor the visible set, the count,
\* the projection or the order, nor the switch of any other rule.
C6_FailedToggleChangesNothing ==
    [][(last'.op = "toggleRuleStatus" \/ Failed(last'.op)) =>
          /\ \A id \in DOMAIN row : Lasting(row'[id]) = Lasting(row[id])
          /\ \A id \in DOMAIN row :
                id /= last'.request.checkbox => row'[id] = row[id]
          /\ last'.request.checkbox /= 0 => view' = view
          /\ [view EXCEPT !.checked = FALSE] = [view' EXCEPT !.checked = FALSE]
          /\ rulesCount' = rulesCount
          /\ allRules' = allRules
          /\ tbody' = tbody
          /\ inputs' = inputs]_vars

\* The scenario of the specification: only active rules are shown, one of two
\* rules is visible, and a toggle has just failed.
C6_Witness ==
    /\ page = "dashboard"
    /\ Failed(last.op)
    /\ inputs.statusFilter = {"active"}
    /\ Len(tbody) = 2
    /\ rulesCount = 1
    /\ row[last.request.checkbox].display = "none"

----------------------------------------------------------------------------
(* C7 *)

RequestsOf(requests, c) == SelectSeq(requests, LAMBDA q : q.checkbox = c)

\* C7: a click on one rule's switch and the handling of a response for it
\* leave every other rule's row, switch and pending requests as they are,
\* whatever else is in flight; the rule itself gets the outcome of its own
\* request: the confirmed value on its row, or its own pre-toggle value on
\* its switch.
C7_TogglesOfOtherRulesIndependent ==
    [][last'.op \in ToggleOps =>
          LET c == last'.request.checkbox
          IN  /\ \A d \in DOMAIN row \ {c} :
                    /\ row'[d] = row[d]
                    /\ RequestsOf(inflight', d) = RequestsOf(inflight, d)
              /\ (last'.op = "confirmed" /\ c /= 0) =>
                    /\ RowShows(row'[c], last'.is_active)
                    /\ row'[c].active = JsStr(last'.is_active)
                    /\ row'[c].checked = row[c].checked
              /\ (Failed(last'.op) /\ c /= 0) =>
                    /\ row'[c].checked = last'.request.pre
                    /\ Lasting(row'[c]) = Lasting(row[c])]_vars

\* A response for one rule has been handled while a toggle of another rule
\* is in flight.
C7_Witness ==
    /\ page = "dashboard"
    /\ last.op \in {"confirmed", "rejected", "error"}
    /\ \E k \in 1..Len(inflight) : inflight[k].checkbox /= last.request.checkbox

----------------------------------------------------------------------------
(* C8 *)

\* C8: when toggles of one rule overlap, a confirmation is applied when it
\* arrives: the row's styling and stored flag are those of the confirmation
\* handled last, whichever request it answers.
C8_LastArrivedConfirmationWins ==
    (last.op = "confirmed" /\ overlap[last.request.checkbox] /= "clean") =>
        /\ DisplayShows(last.request.checkbox, last.is_active)
        /\ FlagShows(last.request.checkbox, last.is_active)

\* Both responses of two overlapping toggles of a row have arrived, the one
\* issued first arriving last, with a value that is not the switch's.
C8_Witness ==
    /\ page = "dashboard"
    /\ last.op = "confirmed"
    /\ overlap[last.request.checkbox] = "reordered"
    /\ ~Toggling(last.request.checkbox)
    /\ Checked(last.request.checkbox) /= last.is_active
    /\ DisplayShows(last.request.checkbox, last.is_active)

----------------------------------------------------------------------------
(* C9 *)

\* One step is a user toggle of switch c exactly when c changes without an
\* error alert; it sends exactly one request, addressed to the rule of c.
OneRequestPerToggle ==
    /\ \A c \in Controls :
          ((IF c = 0 THEN view'.checked /= view.checked
                     ELSE row'[c].checked /= row[c].checked) /\ alert' = "none") =>
              /\ Len(inflight') = Len(inflight) + 1
              /\ SubSeq(inflight', 1, Len(inflight)) = inflight
              /\ inflight'[Len(inflight')].ruleId = RuleIdOf(c)
              /\ inflight'[Len(inflight')].checkbox = c
    /\ Len(inflight') <= Len(inflight) + 1

\* C9 as stated: while a toggle's request is in flight the switch shows the
\* opposite of that toggle's pre-toggle value, and every user toggle sends
\* exactly one request to its rule.
C9_SwitchShowsFlipWhileInFlight ==
    /\ [](\A k \in 1..Len(inflight) :
             Checked(inflight[k].checkbox) = ~inflight[k].pre)
    /\ [][OneRequestPerToggle]_vars

\* C9 amended: the same, for a rule whose toggles have never overlapped.
C9_SwitchShowsFlipWhileAloneInFlight ==
    /\ [](\A k \in 1..Len(inflight) :
             overlap[inflight[k].checkbox] = "clean" =>
                 Checked(inflight[k].checkbox) = ~inflight[k].pre)
    /\ [][OneRequestPerToggle]_vars

\* A toggle is in flight, alone for its rule, while another rule's toggle
\* has been answered in the meantime.
C9_Witness ==
    /\ page = "dashboard"
    /\ last.op = "confirmed"
    /\ \E k \in 1..Len(inflight) :
          /\ inflight[k].checkbox /= last.request.checkbox
          /\ overlap[inflight[k].checkbox] = "clean"
          /\ Checked(inflight[k].checkbox) = ~inflight[k].pre

----------------------------------------------------------------------------
(* C10 *)

\* The committed state of a control: what its derived display shows.
ShownIn(rows, v, c) ==
    CHOOSE b \in BOOLEAN : IF c = 0 THEN ViewShows(v, b) ELSE RowShows(rows[c], b)

\* C10: the control moves Active/Inactive --toggle--> Toggling(from),
\* Toggling(s) --confirmation of s'--> s', Toggling(s) --failure--> s, it is
\* idle again once its last pending request is answered, and in every
\* reachable state a further toggle of it is accepted.
C10_ControlNeverTerminal ==
    /\ [](\A c \in Controls :
             Len(inflight) < MaxInflight => ENABLED toggleRuleStatus(c))
    /\ [][last'.op \in ToggleOps =>
            LET c == last'.request.checkbox
                pending == RequestsOf(inflight, c)
                pendingAfter == RequestsOf(inflight', c)
            IN  /\ last'.op = "toggleRuleStatus" =>
                      /\ Len(pendingAfter) = Len(pending) + 1
                      /\ ShownIn(row', view', c) = ShownIn(row, view, c)
                /\ last'.op = "confirmed" =>
                      /\ Len(pendingAfter) = Len(pending) - 1
                      /\ ShownIn(row', view', c) = last'.is_active
                /\ Failed(last'.op) =>
                      /\ Len(pendingAfter) = Len(pending) - 1
                      /\ ShownIn(row', view', c) = ShownIn(row, view, c)]_vars

\* A control whose state the server has confirmed before is toggled again.
C10_Witness ==
    /\ page = "dashboard"
    /\ last.op = "toggleRuleStatus"
    /\ row[last.request.checkbox].active \in {"true", "false"}
    /\ Len(RequestsOf(inflight, last.request.checkbox)) = 1

----------------------------------------------------------------------------
(* C11: every request is answered *)

\* The dashboard with one rule, or the rule view.
InitLive == InitWith({ <<Gamma>> })

\* The fetch of request k settles: with a response that is ok, with one that
\* is not, or by rejecting.
Responded(k) ==
    \/ \E is_active \in BOOLEAN : ToggleConfirmed(k, is_active)
    \/ ToggleRejected(k)
    \/ ToggleNetworkError(k)

\* Toggles, their responses, the status filter and the sort select.
NextLive ==
    \/ \E c \in Controls : toggleRuleStatus(c)
    \/ \E k \in 1..MaxInflight : Responded(k)
    \/ \E s \in {"active", "inactive"} : StatusFilterChange(s)
    \/ \E sortBy \in {"name", "modified"} : sortRules(sortBy)

\* The backend answers or the connection fails: the oldest pending fetch
\* settles, whatever else the user does meanwhile.
SpecLive == InitLive /\ [][NextLive]_vars /\ WF_vars(Responded(1))

\* The requests a page can send.
ToggleRequests ==
    { [ruleId |-> id, checkbox |-> c, originalChecked |-> ~p, pre |-> p] :
        id \in {"r1", "r2", "r3"}, c \in 0..2, p \in BOOLEAN }

TogglePending(q) == \E k \in DOMAIN inflight : inflight[k] = q

\* The handler has just applied the outcome of request q: the confirmed
\* state on the display, or the rollback of the switch with a message.
Settled(q) ==
    /\ last.request = q
    /\ \/ last.op = "confirmed" /\ DisplayShows(q.checkbox, last.is_active)
       \/ Failed(last.op) /\ Checked(q.checkbox) = q.pre /\ alert /= "none"

\* A step that is not the handling of a response keeps every pending
\* request, and the handling of a response removes one request.
PendingKept ==
    IF last'.op \in {"confirmed", "rejected", "error"}
    THEN /\ Len(inflight') = Len(inflight) - 1
         /\ \E k \in DOMAIN inflight :
               inflight[k] = last'.request /\ inflight' = RemoveAt(inflight, k)
    ELSE /\ Len(inflight') >= Len(inflight)
         /\ SubSeq(inflight', 1, Len(inflight)) = inflight

\* C11: provided the fetches settle, every toggle request that was issued
\* leaves the in-flight list with its outcome applied, as a confirmation or
\* as a rollback; no filter, sort or further toggle removes a pending request.
C11_EveryRequestSettles ==
    /\ \A q \in ToggleRequests : TogglePending(q) ~> Settled(q)
    /\ [][PendingKept]_vars

\* A request is settled after the user sorted, while another is pending.
C11_Witness ==
    /\ Settled(last.request)
    /\ last.op = "confirmed"
    /\ Len(inflight) = 1
    /\ inputs.sortSelect = "name"
    /\ inputs.statusFilter = {"active"}

----------------------------------------------------------------------------
(* C12 *)

BothStatuses == {"active", "inactive"}

\* C12: after filter runs with an empty search term, every action kind
\* selected and both statuses selected, every loaded rule is visible and the
\* count is the number of loaded rules, whatever their action or active flag.
C12_EverythingSelectedShowsAll ==
    (/\ last.op = "filterRules"
     /\ TermOf(inputs.searchInput) = <<>>
     /\ inputs.actionFilter = ActionTypes
     /\ inputs.statusFilter = BothStatuses) =>
        /\ Displayed = DOMAIN row
        /\ rulesCount = Len(tbody)

\* All three rules, among them the one with an unknown action and no active
\* flag, are shown after the boxes were all checked again.
C12_Witness ==
    /\ last.op = "filterRules"
    /\ inputs.searchInput = <<>>
    /\ inputs.actionFilter = ActionTypes
    /\ inputs.statusFilter = BothStatuses
    /\ Len(tbody) = 3
    /\ \E id \in DOMAIN row : row[id].rule_id = "r3" /\ row[id].display = ""
    /\ rulesCount = 3

----------------------------------------------------------------------------
(* C13 *)

\* The status of a rule as its row records it.
StatusOf(id) == IF CurrentlyActive(id) THEN "active" ELSE "inactive"

\* The rules that pass the search and action tests.
PassingSearchAndAction == { id \in DOMAIN row : SearchHolds(id) /\ ActionHolds(id) }

\* After filter runs with both status boxes unchecked no rule is visible
\* and the count is 0.
NoStatusShowsNothing ==
    (last.op = "filterRules" /\ inputs.statusFilter = {}) =>
        /\ Displayed = {}
        /\ rulesCount = 0

\* C13: with both status boxes unchecked no rule is visible and the count
\* is 0; with one status box unchecked exactly the rules with that status
\* are hidden by it.
C13_UncheckedStatusHidesItsRules ==
    /\ NoStatusShowsNothing
    /\ \A s \in BothStatuses :
          (last.op = "filterRules" /\ inputs.statusFilter = BothStatuses \ {s}) =>
              PassingSearchAndAction \ Displayed =
                  { id \in PassingSearchAndAction : StatusOf(id) = s }

----------------------------------------------------------------------------
(* C14 *)

\* C14 as stated: after filter runs with no action kind selected, the
\* action part restricts nothing: every rule that passes the search and the
\* status tests is visible.
C14_NoActionSelectedRestrictsNothing ==
    (last.op = "filterRules" /\ inputs.actionFilter = {}) =>
        Displayed = { id \in DOMAIN row : SearchHolds(id) /\ StatusHolds(id) }

\* C14 as the code has it: when no action kind is selected All Types is
\* unchecked too and no rule passes the action part, so none is visible; the
\* action part restricts nothing exactly when All Types is checked.
C14_NoActionSelectedShowsNothing ==
    last.op = "filterRules" =>
        /\ inputs.actionFilter = {} =>
              /\ ~inputs.filterAll
              /\ Displayed = {}
              /\ rulesCount = 0
        /\ inputs.filterAll =>
              Displayed = { id \in DOMAIN row : SearchHolds(id) /\ StatusHolds(id) }

\* All Types was unchecked on a page with three rules.
C14_Witness ==
    /\ last.op = "filterRules"
    /\ inputs.actionFilter = {}
    /\ ~inputs.filterAll
    /\ inputs.searchInput = <<>>
    /\ inputs.statusFilter = BothStatuses
    /\ Len(tbody) = 3
    /\ Displayed = {}

----------------------------------------------------------------------------
(* C15 *)

\* The timestamp a date key sorts by.
DateOf(r, sortBy) == IF sortBy = "created" THEN r.created ELSE r.modified

\* The rows are in newest-first order of the date key, the rules without a
\* date after all rules with one.
NewestFirst(order, rows, sortBy) ==
    \A i, j \in 1..Len(order) : i < j =>
        LET a == DateOf(rows[order[i]], sortBy)
            b == DateOf(rows[order[j]], sortBy)
        IN  /\ a.isNull => b.isNull
            /\ (~a.isNull /\ ~b.isNull) => a.time >= b.time

\* C15: after a sort by modified or by created date the rules are ordered
\* newest first by that date, and a rule without a modified date comes
\* after every rule that has one.
C15_DateSortsNewestFirst ==
    (last.op = "sortRules" /\ inputs.sortSelect \in {"modified", "created"}) =>
        NewestFirst(tbody, row, inputs.sortSelect)

----------------------------------------------------------------------------
(* C16 *)

\* The text a text key sorts by; the name is compared without regard to
\* case.
TextOf(r, sortBy) == IF sortBy = "name" THEN toLowerCase(r.name) ELSE r.action

NonDecreasing(order, rows, sortBy) ==
    \A i, j \in 1..Len(order) : i < j =>
        localeCompare(TextOf(rows[order[i]], sortBy),
                      TextOf(rows[order[j]], sortBy)) <= 0

----------------------------------------------------------------------------
(* C17 *)

\* The key a rule is sorted by.
KeyOf(r, sortBy) ==
    CASE sortBy = "name"    -> [text |-> r.name, date |-> NoDate]
      [] sortBy = "action"  -> [text |-> r.action, date |-> NoDate]
      [] sortBy = "created" -> [text |-> <<>>, date |-> r.created]
      [] OTHER              -> [text |-> <<>>, date |-> r.modified]

\* Rules with equal keys are in the same relative order in both orders.
TiesKept(before, after, rows, sortBy) ==
    \A x, y \in DOMAIN rows :
        (/\ KeyOf(rows[x], sortBy) = KeyOf(rows[y], sortBy)
         /\ IndexOf(before, x) < IndexOf(before, y)) =>
            IndexOf(after, x) < IndexOf(after, y)

TextSortStableAndIdempotent ==
    [][ (last'.op = "sortRules" /\ inputs'.sortSelect \in {"name", "action"}) =>
          /\ TiesKept(tbody, tbody', row', inputs'.sortSelect)
          /\ SortOutcomes(tbody', row', inputs'.sortSelect) = { tbody' } ]_vars

----------------------------------------------------------------------------
(* C18 *)

\* The rules filterRules would leave visible if it ran now.
VisibleBy(rules, order, rows, in) ==
    { id \in DOMAIN rows :
        filterRules(rules, order, rows, in, 0).row[id].display = "" }

\* A sort leaves the visible rows and the count as they are.
SortKeepsDisplay ==
    [][ last'.op = "sortRules" =>
          /\ { id \in DOMAIN row' : row'[id].display = "" } = Displayed
          /\ rulesCount' = rulesCount ]_vars

\* C18: a sort leaves the visible rules and the count as they are, and
\* filter evaluated after the sort, with the filter inputs unchanged, shows
\* the same rules as filter evaluated before the sort.
C18_SortKeepsVisibility ==
    /\ SortKeepsDisplay
    /\ [][ last'.op = "sortRules" =>
            VisibleBy(allRules', tbody', row', inputs') =
                VisibleBy(allRules, tbody, row, inputs) ]_vars

----------------------------------------------------------------------------
(* C19 *)

\* The entry of a rule would be shown if it were the only rule.
ShownAlone(entry, rows, in) ==
    entry.element \in VisibleBy(<<entry>>, <<entry.element>>, rows, in)

\* C19: a filter call leaves the order of the projection and of the rows
\* as it was, changes nothing of a row but its visibility, and shows a rule
\* exactly when it would show it as the only rule.
C19_FilterPerRuleKeepsOrder ==
    [][ last'.op = "filterRules" =>
          /\ tbody' = tbody
          /\ allRules' = allRules
          /\ \A id \in DOMAIN row :
                [row'[id] EXCEPT !.display = ""] = [row[id] EXCEPT !.display = ""]
          /\ \A k \in DOMAIN allRules :
                (row'[allRules[k].element].display = "") =
                    ShownAlone(allRules[k], row, inputs') ]_vars

\* Three rules in an order a sort produced: the first is hidden, a later
\* one is shown.
C19_Witness ==
    /\ last.op = "filterRules"
    /\ Len(tbody) = 3
    /\ tbody /= <<1, 2, 3>>
    /\ row[tbody[1]].display = "none"
    /\ row[tbody[3]].display = ""

----------------------------------------------------------------------------
(* C20 *)

\* The Rule Status switch of the edit form rendered for a rule.
EditForm(rule) == [is_active |-> [checked |-> get_is_active(rule)]]

\* The backend rule a page element was rendered from.
RuleOf(rule_id) == CHOOSE rule \in ViewRules : rule.rule_id = rule_id

\* C20: a rule loaded without an is_active field is rendered as active on
\* every page: switch checked and row not muted on the dashboard, switch
\* checked with the active text and badge on the rule view, switch checked
\* in the edit form; and the status filter classifies it as active.
C20_MissingFlagMeansActive ==
    /\ \A id \in DOMAIN row :
          RuleOf(row[id].rule_id).is_active = Absent =>
              /\ row[id].checked
              /\ RowShows(row[id], TRUE)
              /\ row[id].active = "True"
              /\ EditForm(RuleOf(row[id].rule_id)).is_active.checked
              /\ \A k \in DOMAIN allRules :
                    allRules[k].element = id => ruleIsActive(allRules[k])
              /\ (row[id].display = "") =
                    (SearchHolds(id) /\ ActionHolds(id) /\ "active" \in inputs.statusFilter)
    /\ (page = "view" /\ RuleOf(view.rule_id).is_active = Absent) =>
          /\ view.checked
          /\ ViewShows(view, TRUE)
          /\ EditForm(RuleOf(view.rule_id)).is_active.checked

\* The rule without the field is on the dashboard, and the filter that
\* asks for active rules only has just shown it.
C20_Witness ==
    /\ last.op = "filterRules"
    /\ inputs.statusFilter = {"active"}
    /\ \E id \in DOMAIN row :
          /\ RuleOf(row[id].rule_id).is_active = Absent
          /\ row[id].checked
          /\ row[id].display = ""

----------------------------------------------------------------------------
(* Dashboard: delete confirmation *)

\* Variant: the form is pointed at the first row of the table.
confirmDeleteFirstRow(id) ==
    /\ page = "dashboard"
    /\ id \in DOMAIN row
    /\ row[id].display = ""
    /\ ~deleteModal.shown
    /\ LET ruleId == row[id].rule_id
           ruleName == RuleOf(row[id].rule_id).name
       IN  deleteModal' = [deleteModal EXCEPT
                             !.deleteRuleName = ruleName,
                             !.action = row[tbody[1]].rule_id,
                             !.shown = TRUE,
                             !.called = [ruleId |-> ruleId, ruleName |-> ruleName]]
    /\ alert' = "none"
    /\ last' = Ran("confirmDelete", NoRequest, FALSE)
    /\ UNCHANGED <<page, row, tbody, allRules, inputs, rulesCount, view,
                   inflight, overlap, otherVars>>

\* The delete button of a visible row: confirmDelete(rule_id, name) fills
\* in the dialog, points the form at the rule and shows the dialog. (called
\* records the arguments of the call.) While the dialog is shown its
\* backdrop covers the rows.
confirmDelete(id) ==
    /\ page = "dashboard"
    /\ id \in DOMAIN row
    /\ row[id].display = ""
    /\ ~deleteModal.shown
    /\ LET ruleId == row[id].rule_id
           ruleName == RuleOf(row[id].rule_id).name
       IN  deleteModal' = [deleteModal EXCEPT
                             !.deleteRuleName = ruleName,
                             !.action = ruleId,
                             !.shown = TRUE,
                             !.called = [ruleId |-> ruleId, ruleName |-> ruleName]]
    /\ alert' = "none"
    /\ last' = Ran("confirmDelete", NoRequest, FALSE)
    /\ UNCHANGED <<page, row, tbody, allRules, inputs, rulesCount, view,
                   inflight, overlap, otherVars>>

\* Cancel, the close button, the backdrop or Escape: data-bs-dismiss
DismissModal ==
    /\ deleteModal.shown
    /\ deleteModal' = [deleteModal EXCEPT !.shown = FALSE]
    /\ alert' = "none"
    /\ last' = Ran("dismiss", NoRequest, FALSE)
    /\ UNCHANGED <<page, row, tbody, allRules, inputs, rulesCount, view,
                   inflight, overlap, otherVars>>

\* The Delete Rule button of the dialog submits #deleteForm: the browser
\* posts to the form's action and leaves the page.
SubmitDelete ==
    /\ deleteModal.shown
    /\ deleteModal' = [deleteModal EXCEPT !.posted = deleteModal.action]
    /\ page' = "unloaded"
    /\ alert' = "none"
    /\ last' = Ran("submit", NoRequest, FALSE)
    /\ UNCHANGED <<row, tbody, allRules, inputs, rulesCount, view,
                   inflight, overlap, otherVars>>

\* The dashboard with two rules, or the rule view.
InitDelete == InitWith({ <<Alpha, Beta>> })

\* The dashboard with its delete dialog: rules are toggled one request at a
\* a time, filtered by status, sorted and deleted, while the page lasts.
NextDelete ==
    \/ \E id \in DOMAIN row : confirmDelete(id)
    \/ DismissModal
    \/ SubmitDelete
    \/ \E c \in Controls :
          page /= "unloaded" /\ inflight = <<>> /\ ~deleteModal.shown /\ toggleRuleStatus(c)
    \/ \E is_active \in BOOLEAN : page /= "unloaded" /\ ToggleConfirmed(1, is_active)
    \/ page /= "unloaded" /\ ToggleRejected(1)
    \/ ~deleteModal.shown /\ StatusFilterChange("active")
    \/ \E sortBy \in {"name", "modified"} : ~deleteModal.shown /\ sortRules(sortBy)

SpecDelete == InitDelete /\ [][NextDelete]_vars

----------------------------------------------------------------------------
(* C21 *)

\* C21: the form is posted only while the dialog is shown, to the rule
\* given to the most recent confirmDelete call, whose name the dialog
\* shows; dismissing the dialog posts nothing; confirmDelete leaves the
\* projection and the rows as they are.
C21_DeleteOnlyAfterConfirmation ==
    [][ /\ deleteModal'.posted /= deleteModal.posted => last'.op = "submit"
        /\ last'.op = "submit" =>
              /\ deleteModal.shown
              /\ deleteModal'.posted = deleteModal.called.ruleId
              /\ deleteModal.deleteRuleName = deleteModal.called.ruleName
              /\ deleteModal.deleteRuleName = RuleOf(deleteModal'.posted).name
        /\ last'.op = "dismiss" =>
              /\ deleteModal'.posted = deleteModal.posted
              /\ ~deleteModal'.shown
        /\ last'.op = "confirmDelete" =>
              /\ deleteModal'.shown
              /\ deleteModal'.posted = deleteModal.posted
              /\ allRules' = allRules
              /\ row' = row
              /\ tbody' = tbody ]_vars

\* The deletion of the second rule was posted, after the dialog had been
\* opened and the rows re-sorted.
C21_Witness ==
    /\ last.op = "submit"
    /\ deleteModal.posted = "r2"
    /\ deleteModal.called.ruleId = "r2"
    /\ deleteModal.deleteRuleName = <<"B", "e", "t", "a">>
    /\ inputs.sortSelect = "name"
    /\ Len(allRules) = 2

----------------------------------------------------------------------------
(* C22 *)

\* The entry the projection holds for a row.
EntryOf(rules, id) == rules[CHOOSE k \in DOMAIN rules : rules[k].element = id]

ElementsOf(rules) == { rules[k].element : k \in DOMAIN rules }

\* C22: no step changes the set of rules in the projection; a sort only
\* permutes the entries, a filter leaves them as they are, and no field of
\* an entry other than its active flag ever changes, the active flag only
\* by the handling of a successful toggle of that rule.
C22_ProjectionOnlyActiveChanges ==
    [][ /\ Len(allRules') = Len(allRules)
        /\ ElementsOf(allRules') = ElementsOf(allRules)
        /\ last'.op = "filterRules" => allRules' = allRules
        /\ \A id \in ElementsOf(allRules) :
              /\ [EntryOf(allRules', id) EXCEPT !.active = ""] =
                    [EntryOf(allRules, id) EXCEPT !.active = ""]
              /\ EntryOf(allRules', id).active /= EntryOf(allRules, id).active =>
                    /\ last'.op = "confirmed"
                    /\ last'.request.checkbox = id ]_vars

----------------------------------------------------------------------------
(* C24 *)

\* A successful toggle has committed a value for the rule of this row.
Committed(id) == row[id].active \in {"true", "false"}

\* The value the latest successful toggle committed.
CommittedValue(id) == row[id].active = "true"

\* C24: after filter runs, a rule for which a successful toggle committed
\* is_active = v is classified as active exactly when v is true: it is
\* visible exactly when it passes the search and action tests and the
\* status box of v is checked.
C24_FilterClassifiesCommittedValue ==
    last.op = "filterRules" =>
        \A id \in DOMAIN row :
            Committed(id) =>
                /\ ruleIsActive(EntryOf(allRules, id)) = CommittedValue(id)
                /\ (row[id].display = "") =
                      (/\ SearchHolds(id)
                       /\ ActionHolds(id)
                       /\ (IF CommittedValue(id) THEN "active" ELSE "inactive")
                              \in inputs.statusFilter)

----------------------------------------------------------------------------
(* Rules sidebar of the base layout *)

\* Rule lists GET /api/rules can answer with.
ApiRuleLists == { <<>>, <<Alpha, Beta>>, <<Alpha, Beta, Gamma>> }

\* Texts a user leaves in #searchRules.
SidebarTerms == { <<>>, <<" ">>, <<"s", "m", "s">>, <<" ", "B", "e", "t">>,
                  <<"v", "v">> }

getActionName(action) ==
    CASE action = <<"s", "m", "s">> -> <<"S", "M", "S">>
      [] action = <<"a", "r", "c", "h", "i", "v", "e">> ->
             <<"A", "r", "c", "h", "i", "v", "e">>
      [] OTHER -> action

\* The rule id in the path of a rule page, else none.
getCurrentRuleId == IF page = "view" THEN view.rule_id ELSE ""

\* renderRulesList(rules): the message for an empty list depends on the
\* search box, a list is rendered in the order given.
renderRulesList(rules, searchValue) ==
    IF Len(rules) = 0
    THEN Content(IF trim(searchValue) /= <<>> THEN "nomatch" ELSE "none", <<>>, "")
    ELSE LET items == [k \in 1..Len(rules) |-> rules[k].rule_id]
         IN  Content("rules", items,
                     IF \E k \in 1..Len(items) : items[k] = getCurrentRuleId
                     THEN getCurrentRuleId ELSE "")

\* Variant: the action and its display name are not searched.
sidebarMatchesTextOnly(rule, term) ==
    \/ includes(toLowerCase(rule.name), term)
    \/ includes(toLowerCase(rule.description), term)
    \/ includes(toLowerCase(rule.query), term)

\* The test of the sidebar's filter for one rule
sidebarMatches(rule, term) ==
    \/ includes(toLowerCase(rule.name), term)
    \/ includes(toLowerCase(rule.description), term)
    \/ includes(toLowerCase(rule.query), term)
    \/ includes(toLowerCase(rule.action), term)
    \/ includes(toLowerCase(getActionName(rule.action)), term)

\* filterRules(searchTerm) of the sidebar script
sidebarFilterRules(searchTerm, rulesData, searchValue) ==
    LET term == trim(toLowerCase(searchTerm))
    IN  IF term = <<>>
        THEN renderRulesList(rulesData, searchValue)
        ELSE renderRulesList(SelectSeq(rulesData, LAMBDA rule : sidebarMatches(rule, term)),
                             searchValue)

SidebarFrame ==
    /\ alert' = "none"
    /\ UNCHANGED <<page, row, tbody, allRules, inputs, rulesCount, view,
                   inflight, overlap, deleteModal, emailPanel, notifications>>

\* openSidebar(): show, empty the search box, request the rule list
openSidebar ==
    /\ sidebar.loads < MaxLoads
    /\ sidebar' = [sidebar EXCEPT !.open = TRUE,
                                  !.sidebarOpen = TRUE,
                                  !.searchRules = <<>>,
                                  !.loads = @ + 1]
    /\ last' = Ran("openSidebar", NoRequest, FALSE)
    /\ SidebarFrame

closeSidebar ==
    /\ sidebar' = [sidebar EXCEPT !.open = FALSE, !.sidebarOpen = FALSE]
    /\ last' = Ran("closeSidebar", NoRequest, FALSE)
    /\ SidebarFrame

\* The toggle button and the close button of the sidebar
toggleSidebar ==
    IF sidebar.sidebarOpen THEN closeSidebar ELSE openSidebar

\* A click on the overlay, which is there while the sidebar is open
OverlayClick ==
    /\ sidebar.open
    /\ closeSidebar

\* GET /api/rules answers with a rule list
RulesLoaded(data) ==
    /\ sidebar.loads > 0
    /\ sidebar' = [sidebar EXCEPT !.loads = @ - 1,
                                  !.rulesData = data,
                                  !.content = renderRulesList(data, sidebar.searchRules)]
    /\ last' = Ran("rulesLoaded", NoRequest, FALSE)
    /\ SidebarFrame

\* GET /api/rules fails, or its body is not JSON
RulesLoadFailed ==
    /\ sidebar.loads > 0
    /\ sidebar' = [sidebar EXCEPT !.loads = @ - 1,
                                  !.content = Content("error", <<>>, "")]
    /\ last' = Ran("rulesLoadFailed", NoRequest, FALSE)
    /\ SidebarFrame

\* The user edits #searchRules; onkeyup runs filterRules(this.value)
SearchKeyUp(text) ==
    /\ sidebar.open
    /\ sidebar' = [sidebar EXCEPT
                     !.searchRules = text,
                     !.content = sidebarFilterRules(text, sidebar.rulesData, text)]
    /\ last' = Ran("searchKeyUp", NoRequest, FALSE)
    /\ SidebarFrame

\* clearSearch(), also the Clear Search button of the no-match message
clearSearch ==
    /\ sidebar' = [sidebar EXCEPT
                     !.searchRules = <<>>,
                     !.content = renderRulesList(sidebar.rulesData, <<>>)]
    /\ SidebarFrame

\* The Clear Search button of the no-match message
ClearSearchClick ==
    /\ sidebar.open
    /\ sidebar.content.kind = "nomatch"
    /\ clearSearch
    /\ last' = Ran("clearSearch", NoRequest, FALSE)

\* Variant: the value of the search box is tested without trim().
EscapeKeyUntrimmed ==
    /\ last' = Ran("escape", NoRequest, FALSE)
    /\ IF sidebar.sidebarOpen
       THEN IF sidebar.searchRules /= <<>>
            THEN clearSearch
            ELSE /\ sidebar' = [sidebar EXCEPT !.open = FALSE, !.sidebarOpen = FALSE]
                 /\ SidebarFrame
       ELSE /\ UNCHANGED sidebar
            /\ SidebarFrame

\* keydown of Escape
EscapeKey ==
    /\ last' = Ran("escape", NoRequest, FALSE)
    /\ IF sidebar.sidebarOpen
       THEN IF trim(sidebar.searchRules) /= <<>>
            THEN clearSearch
            ELSE /\ sidebar' = [sidebar EXCEPT !.open = FALSE, !.sidebarOpen = FALSE]
                 /\ SidebarFrame
       ELSE /\ UNCHANGED sidebar
            /\ SidebarFrame

\* Any page of the console, here the rule view or a one-rule dashboard.
InitSidebar == InitWith({ <<Gamma>> })

NextSidebar ==
    \/ toggleSidebar
    \/ OverlayClick
    \/ \E data \in ApiRuleLists : RulesLoaded(data)
    \/ RulesLoadFailed
    \/ \E text \in SidebarTerms : SearchKeyUp(text)
    \/ ClearSearchClick
    \/ EscapeKey

SpecSidebar == InitSidebar /\ [][NextSidebar]_vars

----------------------------------------------------------------------------
(* C23 *)

\* The rule ids of the loaded rules that satisfy a test, in loaded order.
IdsWhere(rules, Test(_)) ==
    LET kept == SelectSeq(rules, Test)
    IN  [k \in 1..Len(kept) |-> kept[k].rule_id]

\* The term is found in the rule's name, description or query.
InText(rule, term) ==
    \/ includes(toLowerCase(rule.name), term)
    \/ includes(toLowerCase(rule.description), term)
    \/ includes(toLowerCase(rule.query), term)

\* The term is found in the rule's action or in the action's display name.
InAction(rule, term) ==
    \/ includes(toLowerCase(rule.action), term)
    \/ includes(toLowerCase(getActionName(rule.action)), term)

\* C23 as stated: after a search in the sidebar every rule shown has the
\* trimmed, lower-cased term in its lower-cased name, description or query,
\* and with an empty term every loaded rule is shown.
C23_SidebarSearchesText ==
    last.op = "searchKeyUp" =>
        LET term == TermOf(sidebar.searchRules)
        IN  /\ \A k \in DOMAIN sidebar.content.items :
                  InText(RuleOf(sidebar.content.items[k]), term)
            /\ term = <<>> =>
                  sidebar.content.items =
                      IdsWhere(sidebar.rulesData, LAMBDA rule : TRUE)

\* C23 as the code has it: after a search in the sidebar exactly the
\* loaded rules are shown that have the trimmed, lower-cased term in their
\* lower-cased name, description, query, action or action display name;
\* with an empty term that is every loaded rule.
C23_SidebarSearchesTextAndAction ==
    last.op = "searchKeyUp" =>
        LET term == TermOf(sidebar.searchRules)
        IN  /\ sidebar.content.items =
                  IdsWhere(sidebar.rulesData,
                           LAMBDA rule : InText(rule, term) \/ InAction(rule, term))
            /\ term = <<>> =>
                  sidebar.content.items =
                      IdsWhere(sidebar.rulesData, LAMBDA rule : TRUE)

\* Of three loaded rules the search for "sms" shows the one whose action is
\* sms; its name, description and query do not hold the term.
C23_Witness ==
    /\ last.op = "searchKeyUp"
    /\ sidebar.searchRules = <<"s", "m", "s">>
    /\ Len(sidebar.rulesData) = 3
    /\ sidebar.content.items = <<"r1">>
    /\ ~InText(RuleOf("r1"), <<"s", "m", "s">>)

----------------------------------------------------------------------------
(* C27 *)

\* The loaded rules the sidebar's search keeps for the text in the box.
SidebarMatching ==
    IdsWhere(sidebar.rulesData,
             LAMBDA rule : LET term == TermOf(sidebar.searchRules)
                           IN  InText(rule, term) \/ InAction(rule, term))

\* C27: whenever the sidebar is open, no rule list request is pending and
\* the latest request did not fail, the sidebar lists exactly the rules of
\* the most recently received list that match the text in the search box.
C27_SidebarListMatchesSearchBox ==
    (/\ sidebar.open
     /\ sidebar.loads = 0
     /\ sidebar.content.kind /= "error") =>
        sidebar.content.items = SidebarMatching

----------------------------------------------------------------------------
(* C28 *)

\* The sidebar lists every loaded rule, or the message for no rules.
ShowsFullList(sb) == sb.content = renderRulesList(sb.rulesData, <<>>)

\* What Escape does to an open sidebar whose search box counts as filled
\* (clear the search, show the full list, stay open) or as empty (close),
\* and to a closed sidebar (nothing).
EscapeDoes(filled) ==
    last'.op = "escape" =>
        /\ (sidebar.open /\ filled) =>
              /\ sidebar'.searchRules = <<>>
              /\ ShowsFullList(sidebar')
              /\ sidebar'.open /\ sidebar'.sidebarOpen
        /\ (sidebar.open /\ ~filled) =>
              /\ ~sidebar'.open /\ ~sidebar'.sidebarOpen
        /\ ~sidebar.open => sidebar' = sidebar

\* C28 as stated: Escape with a non-empty search box clears the search,
\* shows the full list and leaves the sidebar open; Escape with an empty
\* search box closes the sidebar; Escape with the sidebar closed changes
\* nothing.
C28_EscapeClearsNonEmptySearch ==
    [][ EscapeDoes(sidebar.searchRules /= <<>>) ]_vars

\* C28 as the code has it: the search box counts as filled when its text
\* is non-empty after trimming; a box that is empty or holds only white
\* space makes Escape close the sidebar. After an Escape an open sidebar
\* has an empty search box, so a second Escape closes it.
C28_EscapeClearsNonBlankSearch ==
    /\ [][ EscapeDoes(trim(sidebar.searchRules) /= <<>>) ]_vars
    /\ [][ (last'.op = "escape" /\ sidebar'.open) =>
              sidebar'.searchRules = <<>> ]_vars

\* Escape closed the sidebar although the search box holds a blank.
C28_Witness ==
    /\ last.op = "escape"
    /\ ~sidebar.open
    /\ sidebar.searchRules = <<" ">>
    /\ Len(sidebar.rulesData) = 3

----------------------------------------------------------------------------
(* C25 *)

\* The switch agrees with the styling and the stored flag of its rule.
SwitchAgrees(c) ==
    \E b \in BOOLEAN :
        /\ Checked(c) = b
        /\ DisplayShows(c, b)
        /\ FlagShows(c, b)

\* C25: when the failure of a toggle has been handled and no request of
\* that rule is pending any more, the switch shows what the styling and the
\* stored flag of the rule show, also after overlapping toggles.
C25_RollbackAgreesWithStyling ==
    (Failed(last.op) /\ ~Toggling(last.request.checkbox)) =>
        SwitchAgrees(last.request.checkbox)

\* Two overlapping toggles of a rule that was never confirmed both failed,
\* and the switch disagrees with the styling.
OverlapFailuresDisagree ==
    /\ page = "dashboard"
    /\ Failed(last.op)
    /\ inflight = <<>>
    /\ row[last.request.checkbox].active \in {"True", "False"}
    /\ ~SwitchAgrees(last.request.checkbox)

----------------------------------------------------------------------------
(* C26 *)

\* C26: once the change handlers have run, All Types is checked exactly
\* when every action kind is checked, and the rules shown and counted are
\* those that pass the filter for the checkboxes as they then are.
C26_AllTypesIffEveryKind ==
    (page = "dashboard") =>
        /\ inputs.filterAll = (inputs.actionFilter = ActionTypes)
        /\ last.op = "filterRules" =>
              /\ Displayed = { id \in PassingSearchAndAction : StatusHolds(id) }
              /\ rulesCount = Cardinality(Displayed)

\* One action kind was unchecked: All Types is unchecked with it and only
\* the rules of the kind still checked are shown.
C26_Witness ==
    /\ last.op = "filterRules"
    /\ ~inputs.filterAll
    /\ inputs.actionFilter = { <<"s", "m", "s">> }
    /\ inputs.searchInput = <<>>
    /\ inputs.statusFilter = BothStatuses
    /\ Len(tbody) = 3
    /\ Cardinality(Displayed) = 1

----------------------------------------------------------------------------
(* Email detail panel *)

EmailIds == { "e1", "e2" }

PanelFrame ==
    /\ alert' = "none"
    /\ UNCHANGED <<page, row, tbody, allRules, inputs, rulesCount, view,
                   inflight, overlap, deleteModal, sidebar, notifications>>

PanelWork == Len(emailPanel.timers) + Len(emailPanel.requests)

\* openEmailPanel(emailId), called by a click on an email row (the open
\* panel's overlay covers the rows): open the panel and set the 300 ms
\* timer that will request the email. (latest records the email opened
\* last.)
openEmailPanel(emailId) ==
    /\ ~emailPanel.open
    /\ PanelWork < MaxPanelWork
    /\ emailPanel' = [emailPanel EXCEPT
                        !.open = TRUE,
                        !.timers = Append(@, [run |-> "loadEmailDetails", emailId |-> emailId]),
                        !.latest = emailId]
    /\ last' = Ran("openEmailPanel", NoRequest, FALSE)
    /\ PanelFrame

\* closeEmailPanel(), called by the overlay, the close buttons and Escape
\* of the open panel: close the panel and set the 300 ms timer that puts
\* the spinner back
closeEmailPanel ==
    /\ emailPanel.open
    /\ PanelWork < MaxPanelWork
    /\ emailPanel' = [emailPanel EXCEPT
                        !.open = FALSE,
                        !.timers = Append(@, [run |-> "reset", emailId |-> ""])]
    /\ last' = Ran("closeEmailPanel", NoRequest, FALSE)
    /\ PanelFrame

\* The oldest timer fires (all have the same delay, so they fire in the
\* order they were set): it sends the request, or puts the spinner back.
PanelTimerFires ==
    /\ emailPanel.timers /= <<>>
    /\ LET timer == Head(emailPanel.timers)
       IN  IF timer.run = "loadEmailDetails"
           THEN emailPanel' = [emailPanel EXCEPT
                                 !.timers = Tail(@),
                                 !.requests = Append(@, timer.emailId)]
           ELSE emailPanel' = [emailPanel EXCEPT
                                 !.timers = Tail(@),
                                 !.body = PanelBody("loading", "")]
    /\ last' = Ran("panelTimer", NoRequest, FALSE)
    /\ PanelFrame

\* GET /google/email/<id> of request k settles: renderEmailDetails for an
\* ok response, renderEmailError otherwise
EmailAnswered(k, ok) ==
    /\ k \in 1..Len(emailPanel.requests)
    /\ emailPanel' = [emailPanel EXCEPT
                        !.requests = RemoveAt(@, k),
                        !.body = PanelBody(IF ok THEN "details" ELSE "error",
                                           emailPanel.requests[k])]
    /\ last' = Ran("emailAnswered", NoRequest, ok)
    /\ PanelFrame

InitPanel == InitWith({ <<Gamma>> })

NextPanel ==
    \/ \E emailId \in EmailIds : openEmailPanel(emailId)
    \/ closeEmailPanel
    \/ PanelTimerFires
    \/ \E k \in 1..MaxPanelWork, ok \in BOOLEAN : EmailAnswered(k, ok)

SpecPanel == InitPanel /\ [][NextPanel]_vars

----------------------------------------------------------------------------
(* C29 *)

\* C29: when no timer and no email request is pending, an open email
\* panel shows the details, or the load error, of the email that was
\* opened last.
C29_PanelShowsLatestEmail ==
    (/\ emailPanel.open
     /\ emailPanel.timers = <<>>
     /\ emailPanel.requests = <<>>) =>
        /\ emailPanel.body.kind \in {"details", "error"}
        /\ emailPanel.body.emailId = emailPanel.latest

----------------------------------------------------------------------------
(* Notifications *)

\* The delays of the timers, in units of 100 ms.
ShowDelay == 1
RemoveDelay == 3
AutoRemoveDelay == 50

NotifyFrame ==
    /\ alert' = "none"
    /\ UNCHANGED <<page, row, tbody, allRules, inputs, rulesCount, view,
                   inflight, overlap, deleteModal, sidebar, emailPanel>>

\* Date.now(): the millisecond of the clock
DateNow(n) == IF n.fresh THEN n.lastId + 1 ELSE n.lastId

\* document.getElementById('notification-' + id): the position of the
\* first element of the container with that id, 0 if there is none
getElementById(container, id) ==
    IF \E i \in 1..Len(container) : container[i].id = id
    THEN CHOOSE i \in 1..Len(container) :
            /\ container[i].id = id
            /\ \A j \in 1..(i - 1) : container[j].id /= id
    ELSE 0

\* removeNotification(id): take 'show' off the element found and set the
\* 300 ms timer that detaches that element
removeNotification(n, id) ==
    LET i == getElementById(n.container, id)
    IN  IF i = 0
        THEN n
        ELSE [n EXCEPT
                !.container[i].show = FALSE,
                !.timers = Append(@, [run |-> "remove", key |-> n.container[i].key,
                                      id |-> id, due |-> RemoveDelay])]

\* No element of the container is fading out: none waits for its removal
\* timer.
NoneFading(n) ==
    \A k \in 1..Len(n.timers), i \in 1..Len(n.container) :
        n.timers[k].run = "remove" => n.timers[k].key /= n.container[i].key

\* showNotification(title, message, type): append the element and set the
\* two timers. (key tells the elements apart, the page has no such name.)
showNotification ==
    /\ notifications.made < MaxNotifications
    /\ LET id == DateNow(notifications)
           key == notifications.made + 1
       IN  notifications' =
             [container |-> Append(notifications.container,
                                   [key |-> key, id |-> id, show |-> FALSE]),
              timers |-> notifications.timers \o
                         << [run |-> "show", key |-> key, id |-> id, due |-> ShowDelay],
                            [run |-> "auto", key |-> key, id |-> id, due |-> AutoRemoveDelay] >>,
              made |-> key,
              lastId |-> id,
              fresh |-> FALSE]
    /\ last' = Ran("showNotification", NoRequest, FALSE)
    /\ NotifyFrame

\* The user clicks the close button of the i-th notification, while none
\* is fading out: removeNotification(<the id written into its onclick>)
DismissClick(i) ==
    /\ i \in 1..Len(notifications.container)
    /\ NoneFading(notifications)
    /\ notifications' = removeNotification(notifications, notifications.container[i].id)
    /\ last' = Ran("dismiss", NoRequest, FALSE)
    /\ NotifyFrame

RECURSIVE removeEach(_, _)
\* forEach over the elements found by querySelectorAll
removeEach(n, elements) ==
    IF elements = <<>>
    THEN n
    ELSE removeEach(removeNotification(n, Head(elements).id), Tail(elements))

\* keydown Escape, while no notification is fading out:
\* removeNotification for every notification element
EscapeNotifications ==
    /\ notifications.container /= <<>>
    /\ NoneFading(notifications)
    /\ notifications' = removeEach(notifications, notifications.container)
    /\ last' = Ran("escape", NoRequest, FALSE)
    /\ NotifyFrame

\* Timer k may fire: it is due and so is no timer of the same delay that
\* was set before it.
MayFire(k) ==
    /\ k \in 1..Len(notifications.timers)
    /\ notifications.timers[k].due = 0
    /\ \A j \in 1..(k - 1) :
          notifications.timers[j].run = notifications.timers[k].run
            => notifications.timers[j].due /= 0

\* The callback of timer k runs.
NotificationTimerFires(k) ==
    /\ MayFire(k)
    /\ LET timer == notifications.timers[k]
           rest == [notifications EXCEPT !.timers = RemoveAt(@, k)]
       IN  notifications' =
             CASE timer.run = "show" ->
                    \* notification.classList.add('show'), attached or not
                    [rest EXCEPT !.container =
                        [i \in 1..Len(@) |->
                            IF @[i].key = timer.key
                            THEN [@[i] EXCEPT !.show = TRUE] ELSE @[i]]]
               [] timer.run = "auto" ->
                    removeNotification(rest, timer.id)
               [] OTHER ->
                    \* if (notification.parentNode) removeChild(notification)
                    [rest EXCEPT !.container =
                        SelectSeq(@, LAMBDA el : el.key /= timer.key)]
    /\ last' = Ran("notificationTimer", NoRequest, FALSE)
    /\ NotifyFrame

\* The time until the next timer is due, in units of 100 ms.
NextDue(timers) ==
    CHOOSE d \in 0..AutoRemoveDelay :
        /\ \E k \in 1..Len(timers) : timers[k].due = d
        /\ \A k \in 1..Len(timers) : timers[k].due >= d

\* Time passes until the next timer is due; no timer that is due is left
\* waiting.
Advance ==
    /\ notifications.timers /= <<>>
    /\ NextDue(notifications.timers) > 0
    /\ notifications' =
          [notifications EXCEPT
             !.timers = [k \in 1..Len(@) |->
                            [@[k] EXCEPT !.due = @ - NextDue(notifications.timers)]],
             !.fresh = TRUE]
    /\ last' = Ran("advance", NoRequest, FALSE)
    /\ NotifyFrame

\* A millisecond passes.
MillisecondPasses ==
    /\ ~notifications.fresh
    /\ notifications' = [notifications EXCEPT !.fresh = TRUE]
    /\ last' = Ran("millisecond", NoRequest, FALSE)
    /\ NotifyFrame

InitNotify == InitWith({ <<Gamma>> })

\* A notification has at most four timers: show, auto-remove and, with
\* its id, the removals set by the user and by the auto-remove timer.
TimersRun == \E k \in 1..(4 * MaxNotifications) : NotificationTimerFires(k)

NextNotify ==
    \/ showNotification
    \/ \E i \in 1..MaxNotifications : DismissClick(i)
    \/ EscapeNotifications
    \/ TimersRun
    \/ Advance
    \/ MillisecondPasses

\* Time passes and the timers that are due run, whatever the user does.
SpecNotify ==
    InitNotify /\ [][NextNotify]_vars /\ WF_vars(TimersRun) /\ WF_vars(Advance)

----------------------------------------------------------------------------
(* C30 *)

\* Notification key is an element of the container.
Attached(key) ==
    \E i \in 1..Len(notifications.container) : notifications.container[i].key = key

\* C30: every notification appended to the container is removed from it
\* later.
C30_EveryNotificationRemoved ==
    \A key \in 1..MaxNotifications : Attached(key) ~> ~Attached(key)


====
